---- MODULE Spec2Model ----
(***************************************************************************)
(* A model of pymepps' grid engine (pymepps/grid/grid.py, lonlat.py,       *)
(* curvilinear.py): grid descriptors, the computed latitude/longitude      *)
(* field and its lazy cache, normalisation, box slicing, interpolation,    *)
(* nearest-point lookup, equality and copy.                                *)
(*                                                                         *)
(* Numbers.  Every coordinate, bound and increment is a fixed-point        *)
(* number: the integer n stands for n/2 degrees (Deg(d) is d degrees), so  *)
(* that half-degree increments are exact.  A raw value of an axis whose    *)
(* unit is radians is kept as its multiple of pi/4: the integer k stands   *)
(* for k*pi/4 rad.  All arithmetic of the code on such values is exact.    *)
(*                                                                         *)
(* Arrays.  A 1-D array is a sequence, a 2-D array a sequence of rows, the *)
(* caller's data a sequence (one leading dimension) of 2-D or 1-D arrays.  *)
(* Indices are 1-based here and 0-based in the code.                       *)
(*                                                                         *)
(* Exceptions.  An operator that models a method returns a record whose    *)
(* field exc is "none" or the name of the exception the method raises.     *)
(***************************************************************************)
EXTENDS Integers, Sequences, FiniteSets, TLC

VARIABLES
    cls,          \* the class of the grid under study
    _grid_dict,   \* Grid._grid_dict, the grid's descriptor
    _lat_lon,     \* Grid._lat_lon, the lazily filled cache (None at first)
    data,         \* the caller's data array
    result,       \* what the last call returned or raised, until the caller takes it
    grid0,        \* history: the descriptor at construction
    data0,        \* history: the caller's data before the first call
    first_ll,     \* history: what the first lat_lon access returned
    pc,           \* per reader: its position inside the lat_lon property
    seen,         \* per reader: the value of self._lat_lon it last read
    writes,       \* history: number of assignments to self._lat_lon
    read_full,    \* history: some reader has read a non-empty cache
    late_write,   \* history: the cache was assigned after such a read
    nlat, nlon, ndata, nout, \* normalize_lat_lon's arguments and its last return value
    twin          \* the grid that self.copy() returned, None before the copy

vars == <<cls, _grid_dict, _lat_lon, data, result, grid0, data0, first_ll,
          pc, seen, writes, read_full, late_write, nlat, nlon, ndata, nout, twin>>

\* Python's None where a grid's field, a result or a history value may hold it
None == [isnone |-> TRUE]

\* an argument that is no grid: None and a string
NoneArg == [cls |-> "NoneType"]

NotAGrid == [cls |-> "str"]

\* data=None of normalize_lat_lon: no leading slice at all
NoData == <<>>

----------------------------------------------------------------------------
(* Bounds of the model *)

\* largest xsize / ysize of a regular descriptor
MaxSize == 2

\* largest length of the data's leading dimension
MaxLead == 2

\* largest xsize / ysize of a curvilinear descriptor
MaxCurv == 2

\* concurrent readers of lat_lon
NumReaders == 2

\* lat_lon accesses per reader
MaxAccess == 2

\* successive applications of normalize_lat_lon
MaxApply == 2

\* latitudes and longitudes drawn for a field: NormVals + 1 values each
NormVals == 2

----------------------------------------------------------------------------
(* Numbers and small array helpers *)

Deg(d) == 2 * d

Range(s) == {s[i] : i \in DOMAIN s}

Min(S) == CHOOSE m \in S : \A x \in S : m <= x

Max(S) == CHOOSE m \in S : \A x \in S : x <= m

\* ceil(a / b) for b # 0
CeilDiv(a, b) == IF b > 0 THEN -((-a) \div b) ELSE -(a \div (-b))

\* the rows of a 2-D array one after the other (numpy ravel / flatten, C order)
RECURSIVE Flatten(_)
Flatten(a) == IF a = <<>> THEN <<>> ELSE Head(a) \o Flatten(Tail(a))

\* numpy shape of a 2-D array given as a sequence of rows
Shape2(a) == <<Len(a), IF Len(a) = 0 THEN 0 ELSE Len(a[1])>>

\* the entries of s whose mask entry is TRUE, in order (boolean-mask indexing)
RECURSIVE MaskSel(_, _)
MaskSel(s, m) ==
    IF s = <<>> THEN <<>>
    ELSE (IF Head(m) THEN <<Head(s)>> ELSE <<>>) \o MaskSel(Tail(s), Tail(m))

\* dict(d); d.update(u)
Update(d, u) ==
    [k \in DOMAIN d \cup DOMAIN u |-> IF k \in DOMAIN u THEN u[k] ELSE d[k]]

\* d without the keys ks (dict.pop(k, None) for k in ks)
Without(d, ks) == [k \in DOMAIN d \ ks |-> d[k]]

Raise(e) == [exc |-> e]

----------------------------------------------------------------------------
(* Units: known_units and Grid.convert_to_deg *)

Units == {"degrees", "radians", "kelvin"}

\* `known in unit.lower()` for the unit names of the model
Contains(unit, known) ==
    \/ known = "deg" /\ unit = "degrees"
    \/ known = "rad" /\ unit = "radians"

\* known_units[known](x), x a number; a raw radian value k stands for k*pi/4,
\* so x*180/pi is k*180/4 degrees
known_units(known, x) ==
    IF known = "deg" THEN x ELSE (x * Deg(180)) \div 4

convert_to_deg(field, unit) ==
    LET matching == SelectSeq(<<"deg", "rad">>, LAMBDA known : Contains(unit, known))
    IN  IF matching = <<>> THEN Raise("ValueError")
        ELSE [exc |-> "none",
              field |-> [i \in DOMAIN field |-> known_units(matching[1], field[i])]]

----------------------------------------------------------------------------
(* Construction: LonLatGrid.__init__, CurvilinearGrid.__init__ *)

LonLatDefaults ==
    [gridtype |-> "lonlat", xlongname |-> "longitude", xname |-> "lon",
     xunits |-> "degrees", ylongname |-> "latitude", yname |-> "lat",
     yunits |-> "degrees"]

CurvilinearDefaults ==
    [gridtype |-> "curvilinear", xlongname |-> "longitude", xname |-> "lon",
     xunits |-> "degrees", ylongname |-> "latitude", yname |-> "lat",
     yunits |-> "degrees", nvertex |-> 4]

\* the descriptor an instance of class c holds after __init__(grid_dict)
InitGridDict(c, grid_dict) ==
    IF c = "CurvilinearGrid" THEN Update(CurvilinearDefaults, grid_dict)
    ELSE IF c = "LonLatGrid" THEN Update(LonLatDefaults, grid_dict)
    ELSE grid_dict

\* Grid.len_coords
len_coords(c) == IF c = "UnstructuredGrid" THEN 1 ELSE 2

----------------------------------------------------------------------------
(* The computed latitude / longitude field *)

\* the range with its stop included
arange_closed(start, stop, step) ==
    [i \in 1..(CeilDiv(stop - start, step) + 1) |-> start + (i - 1) * step]

\* numpy.arange(start, stop, step)
arange(start, stop, step) ==
    LET n == CeilDiv(stop - start, step)
    IN  [i \in 1..(IF n > 0 THEN n ELSE 0) |-> start + (i - 1) * step]

DimKey(dim_name, what) ==
    IF dim_name = "x"
    THEN (IF what = "first" THEN "xfirst" ELSE IF what = "size" THEN "xsize" ELSE "xinc")
    ELSE (IF what = "first" THEN "yfirst" ELSE IF what = "size" THEN "ysize" ELSE "yinc")

\* LonLatGrid._calc_single_dim
_calc_single_dim(gd, dim_name) ==
    IF \E w \in {"first", "size", "inc"} : DimKey(dim_name, w) \notin DOMAIN gd
    THEN Raise("KeyError")
    ELSE LET start == gd[DimKey(dim_name, "first")]
             steps == gd[DimKey(dim_name, "size")]
             width == gd[DimKey(dim_name, "inc")]
         IN  IF width = 0 THEN Raise("ZeroDivisionError")
             ELSE [exc |-> "none",
                   dim |-> arange(start, start + steps * width, width)]

\* the two axes together, or the exception the first failing one raised
BothDims(y, x) ==
    IF y.exc # "none" THEN y
    ELSE IF x.exc # "none" THEN x
    ELSE [exc |-> "none", y |-> y.dim, x |-> x.dim]

\* LonLatGrid._construct_dim (inherited by CurvilinearGrid);
\* for an unstructured grid the flat coordinate arrays themselves
_construct_dim(c, gd) ==
    IF c = "UnstructuredGrid"
    THEN (IF {"yvals", "xvals"} \subseteq DOMAIN gd
          THEN [exc |-> "none", y |-> gd.yvals, x |-> gd.xvals]
          ELSE Raise("KeyError"))
    ELSE BothDims(_calc_single_dim(gd, "y"), _calc_single_dim(gd, "x"))

\* numpy.meshgrid(dim_lat, dim_lon), both results transposed: the 2-D field of
\* two converted axes, or the exception of the conversion
Mesh(dim_lat, dim_lon) ==
    IF dim_lat.exc # "none" THEN dim_lat
    ELSE IF dim_lon.exc # "none" THEN dim_lon
    ELSE [exc |-> "none",
          lat |-> [i \in DOMAIN dim_lat.field |->
                      [j \in DOMAIN dim_lon.field |-> dim_lat.field[i]]],
          lon |-> [i \in DOMAIN dim_lat.field |->
                      [j \in DOMAIN dim_lon.field |-> dim_lon.field[j]]],
          shape |-> <<Len(dim_lat.field), Len(dim_lon.field)>>]

\* numpy reshape of a flat sequence to (ny, nx)
Reshape(flat, ny, nx) ==
    [i \in 1..ny |-> [j \in 1..nx |-> flat[(i - 1) * nx + j]]]

\* LonLatGrid._calc_lat_lon, given the constructed axes
LonLatGrid_mesh(dims, gd) ==
    IF dims.exc # "none" THEN dims
    ELSE Mesh(convert_to_deg(dims.y, gd.yunits), convert_to_deg(dims.x, gd.xunits))

LonLatGrid_calc_lat_lon(gd) == LonLatGrid_mesh(_construct_dim("LonLatGrid", gd), gd)

\* CurvilinearGrid._calc_lat_lon, given the constructed axes
CurvilinearGrid_reshape(dims, gd) ==
    IF dims.exc # "none" THEN dims
    ELSE IF "yvals" \notin DOMAIN gd \/ "xvals" \notin DOMAIN gd
    THEN Raise("KeyError")
    ELSE IF \/ Len(gd.yvals) # Len(dims.y) * Len(dims.x)
            \/ Len(gd.xvals) # Len(dims.y) * Len(dims.x)
    THEN Raise("ValueError")
    ELSE [exc |-> "none",
          lat |-> Reshape(gd.yvals, Len(dims.y), Len(dims.x)),
          lon |-> Reshape(gd.xvals, Len(dims.y), Len(dims.x)),
          shape |-> <<Len(dims.y), Len(dims.x)>>]

CurvilinearGrid_calc_lat_lon(gd) ==
    CurvilinearGrid_reshape(_construct_dim("CurvilinearGrid", gd), gd)

\* the flat points of an unstructured grid from its converted coordinates
Points(lat, lon) ==
    IF lat.exc # "none" THEN lat
    ELSE IF lon.exc # "none" THEN lon
    ELSE [exc |-> "none", lat |-> lat.field, lon |-> lon.field,
          shape |-> <<Len(lat.field)>>]

\* pymepps/grid/unstructured.py: the flat points, in degrees
UnstructuredGrid_calc_lat_lon(gd) ==
    IF ~({"yvals", "xvals"} \subseteq DOMAIN gd) THEN Raise("KeyError")
    ELSE Points(convert_to_deg(gd.yvals, gd.yunits), convert_to_deg(gd.xvals, gd.xunits))

\* self._calc_lat_lon(), dispatched on the class
_calc_lat_lon(c, gd) ==
    IF c = "LonLatGrid" THEN LonLatGrid_calc_lat_lon(gd)
    ELSE IF c = "CurvilinearGrid" THEN CurvilinearGrid_calc_lat_lon(gd)
    ELSE UnstructuredGrid_calc_lat_lon(gd)

\* Grid.raw_lat_lon
raw_lat_lon(c, gd) == _calc_lat_lon(c, gd)

\* the xarray.Dataset of Grid._get_lat_lon from the coordinates and the field
Dataset(dim_vals, ll, gd) ==
    IF dim_vals.exc # "none" THEN dim_vals
    ELSE IF ll.exc # "none" THEN ll
    ELSE [exc |-> "none",
          ds |-> [latitude |-> ll.lat, longitude |-> ll.lon, shape |-> ll.shape,
                  dims |-> <<gd.yname, gd.xname>>,
                  coords |-> <<dim_vals.y, dim_vals.x>>]]

\* Grid._get_lat_lon: what the lat_lon property caches
_get_lat_lon(c, gd) == Dataset(_construct_dim(c, gd), _calc_lat_lon(c, gd), gd)

\* a grid object as another call's argument
Obj(c, gd) == [cls |-> c, _grid_dict |-> gd]

IsGrid(o) == o.cls \in {"LonLatGrid", "CurvilinearGrid", "UnstructuredGrid"}

\* an array_equal that compares the shapes only
array_equal_shape(left, right) ==
    IF left.exc # "none" THEN left
    ELSE IF right.exc # "none" THEN right
    ELSE [exc |-> "none", value |-> left.shape = right.shape]

\* numpy.array_equal(numpy.array(left), numpy.array(right))
array_equal(left, right) ==
    IF left.exc # "none" THEN left
    ELSE IF right.exc # "none" THEN right
    ELSE [exc |-> "none",
          value |-> /\ left.shape = right.shape
                    /\ left.lat = right.lat
                    /\ left.lon = right.lon]

\* the try block of Grid.__eq__ and the comparison after it, given
\* self.raw_lat_lon(): an argument without raw_lat_lon raises AttributeError
EqArrays(left, other) ==
    IF left.exc # "none" THEN left
    ELSE IF ~IsGrid(other) THEN Raise("AttributeError")
    ELSE array_equal(left, raw_lat_lon(other.cls, other._grid_dict))

\* except AttributeError: return False
Caught(r) ==
    IF r.exc = "AttributeError" THEN [exc |-> "none", value |-> FALSE] ELSE r

\* Grid.__eq__
Grid__eq__(c, gd, other) == Caught(EqArrays(raw_lat_lon(c, gd), other))

\* a copy whose attributes are the objects the original holds
copy_shallow(c, gd, cache) ==
    [cls |-> c, _grid_dict |-> gd, _lat_lon |-> cache,
     shares |-> {"_grid_dict", "_lat_lon"}]

\* Grid.copy: deepcopy(self); shares names the attributes whose object the copy
\* holds together with the original, none after a deep copy
copy(c, gd, cache) ==
    [cls |-> c, _grid_dict |-> gd, _lat_lon |-> cache, shares |-> {}]

----------------------------------------------------------------------------
(* Grid.normalize_lat_lon *)

\* lon[lon > 180] -= 360, repeated while any entry is above 180
RECURSIVE Wrap(_)
Wrap(x) == IF x > Deg(180) THEN Wrap(x - Deg(360)) ELSE x

\* numpy.argsort of a 1-D array (stable, as numpy sorts short arrays by insertion):
\* the index that comes p-th in ascending order
argsort(v) ==
    LET Rank(k) == Cardinality({m \in DOMAIN v :
                        v[m] < v[k] \/ (v[m] = v[k] /\ m < k)}) + 1
    IN  [p \in DOMAIN v |-> CHOOSE k \in DOMAIN v : Rank(k) = p]

Column(a, j) == [i \in DOMAIN a |-> a[i][j]]

\* numpy.argsort(a, 0): every column sorted on its own
argsort0(a) ==
    [i \in DOMAIN a |-> [j \in DOMAIN a[i] |-> argsort(Column(a, j))[i]]]

\* numpy.argsort(a, 1): every row sorted on its own
argsort1(a) ==
    [i \in DOMAIN a |-> [j \in DOMAIN a[i] |-> argsort(a[i])[j]]]

\* a[rows, cols] with two 2-D index arrays (numpy integer-array indexing)
Take2(a, rows, cols) ==
    [i \in DOMAIN rows |-> [j \in DOMAIN rows[i] |-> a[rows[i][j]][cols[i][j]]]]

\* lat[sort_order_lat, sort_order_lon], lon[...] and data[..., sort_order_lat,
\* sort_order_lon] for the two sort orders
Reordered(lat, wrapped, dat, sort_order_lat, sort_order_lon) ==
    [lat |-> Take2(lat, sort_order_lat, sort_order_lon),
     lon |-> Take2(wrapped, sort_order_lat, sort_order_lon),
     data |-> [l \in DOMAIN dat |-> Take2(dat[l], sort_order_lat, sort_order_lon)]]

\* lon with every entry above 180 brought down by 360
WrapLon(lon) == [i \in DOMAIN lon |-> [j \in DOMAIN lon[i] |-> Wrap(lon[i][j])]]

\* normalize_lat_lon(lat, lon, data) on 2-D lat / lon; dat is NoData or a sequence
\* of 2-D arrays
normalize_lat_lon(lat, lon, dat) ==
    Reordered(lat, WrapLon(lon), dat, argsort0(lat), argsort1(WrapLon(lon)))

----------------------------------------------------------------------------
(* mpl_toolkits.basemap.interp, as Grid._interpolate_structured calls it *)

Diffs(v) == {v[i + 1] - v[i] : i \in 1..(Len(v) - 1)}

\* regular input grid: max(delx) - min(delx) < 1e-4
IsRegular(v) == Max(Diffs(v)) = Min(Diffs(v))

\* the interval of the irregular axis xin that holds v, counted from 0
\* (searchsorted - 1)
Interval(xin, v) == Cardinality({k \in DOMAIN xin : xin[k] < v}) - 1

\* the fractional grid coordinate in the interval i of an irregular axis
Irregular(xin, v, i) ==
    IF i < 0 THEN [num |-> -1, den |-> 1]
    ELSE IF i >= Len(xin) - 1 THEN [num |-> Len(xin), den |-> 1]
    ELSE [num |-> i * (xin[i + 2] - xin[i + 1]) + (v - xin[i + 1]),
          den |-> xin[i + 2] - xin[i + 1]]

\* the fractional 0-based grid coordinate of v on the axis xin, as num/den with
\* den > 0: (len-1)*(v-xin[0])/(xin[-1]-xin[0]) on a regular input grid, by
\* searchsorted on an irregular one
GridCoord(xin, v, regular) ==
    IF regular
    THEN [num |-> (Len(xin) - 1) * (v - xin[1]), den |-> xin[Len(xin)] - xin[1]]
    ELSE Irregular(xin, v, Interval(xin, v))

\* numpy.clip(c, 0, n-1)
Clip(c, n) ==
    IF c.num < 0 THEN [num |-> 0, den |-> 1]
    ELSE IF c.num > (n - 1) * c.den THEN [num |-> n - 1, den |-> 1]
    ELSE c

\* round half to even of f + r/den, 0 <= r < den
HalfEven(f, r, den) ==
    IF 2 * r < den THEN f
    ELSE IF 2 * r > den THEN f + 1
    ELSE IF f % 2 = 0 THEN f ELSE f + 1

\* numpy.around(c).astype(int32)
Around(c) == HalfEven(c.num \div c.den, c.num - (c.num \div c.den) * c.den, c.den)

\* order 0: datain at the rounded grid coordinates
Nearest(datain, x, y) == datain[Around(y) + 1][Around(x) + 1]

\* the bilinear mean between the cells (yi, xi) and (yip1, xip1) with the
\* weights rx/xden and ry/yden, as <<numerator, denominator>>
Weighted(datain, xi, yi, xip1, yip1, rx, ry, xden, yden) ==
    << (xden - rx) * (yden - ry) * datain[yi + 1][xi + 1]
       + rx * ry * datain[yip1 + 1][xip1 + 1]
       + (xden - rx) * ry * datain[yip1 + 1][xi + 1]
       + rx * (yden - ry) * datain[yi + 1][xip1 + 1],
       xden * yden >>

\* xi = xcoords.astype(int32), xip1 = clip(xi + 1, 0, nx - 1), delx = xcoords - xi
BilinearAt(datain, nx, ny, x, y, xi, yi) ==
    Weighted(datain, xi, yi, Min({xi + 1, nx - 1}), Min({yi + 1, ny - 1}),
             x.num - xi * x.den, y.num - yi * y.den, x.den, y.den)

\* order 1 at the clipped grid coordinates x, y
Bilinear(datain, nx, ny, x, y) ==
    BilinearAt(datain, nx, ny, x, y, x.num \div x.den, y.num \div y.den)

\* the output value at the clipped grid coordinates x, y
InterpAt(datain, nx, ny, x, y, order) ==
    IF order = 0 THEN Nearest(datain, x, y) ELSE Bilinear(datain, nx, ny, x, y)

\* every output point through its clipped grid coordinates
InterpField(datain, xin, yin, xout, yout, order, regular) ==
    [i \in DOMAIN xout |-> [j \in DOMAIN xout[i] |->
        InterpAt(datain, Len(xin), Len(yin),
                 Clip(GridCoord(xin, xout[i][j], regular), Len(xin)),
                 Clip(GridCoord(yin, yout[i][j], regular), Len(yin)),
                 order)]]

\* interp(datain, xin, yin, xout, yout, order): datain is indexed [y][x];
\* order 0 gives datain at the nearest grid coordinate, order 1 the bilinear
\* mean as <<numerator, denominator>>
interp(datain, xin, yin, xout, yout, order) ==
    IF Len(xin) < 2 \/ Len(yin) < 2 THEN Raise("ValueError")
    ELSE IF xin[Len(xin)] - xin[1] < 0 \/ yin[Len(yin)] - yin[1] < 0
    THEN Raise("ValueError")
    ELSE IF xin[Len(xin)] = xin[1] \/ yin[Len(yin)] = yin[1]
    THEN Raise("IndexError")
    ELSE IF order \notin {0, 1, 3} THEN Raise("ValueError")
    ELSE IF order = 3 THEN [exc |-> "none", out |-> "spline"]
    ELSE [exc |-> "none",
          out |-> InterpField(datain, xin, yin, xout, yout, order,
                              IsRegular(xin) /\ IsRegular(yin))]

Transpose(a) ==
    IF a = <<>> THEN <<>>
    ELSE [j \in DOMAIN a[1] |-> [i \in DOMAIN a |-> a[i][j]]]

----------------------------------------------------------------------------
(* Grid.interpolate *)

\* the remapped slices stacked again, or the exception the first failing slice raised
Stacked(slices, trg_shape) ==
    IF \E l \in DOMAIN slices : slices[l].exc # "none"
    THEN Raise(slices[CHOOSE l \in DOMAIN slices : slices[l].exc # "none"].exc)
    ELSE [exc |-> "none",
          values |-> [l \in DOMAIN slices |-> slices[l].out],
          shape |-> <<Len(slices)>> \o trg_shape]

\* Grid._interpolate_structured: every leading slice through interp
_interpolate_structured(values, src_lat, src_lon, trg_lat, trg_lon, order) ==
    Stacked([l \in DOMAIN values |->
                interp(Transpose(values[l]), src_lat, src_lon, trg_lat, trg_lon, order)],
            Shape2(trg_lat))

\* Grid._interpolate_unstructured: numpy.concatenate(..., axis=1) of the two
\* ravelled (1-D) coordinate arrays raises before any remapping
_interpolate_unstructured(values, src_lat, src_lon, trg_lat, trg_lon, order) ==
    Raise("AxisError")

\* the trailing n entries of a shape
Trailing(shape, n) == SubSeq(shape, Len(shape) - n + 1, Len(shape))

\* the dispatch of Grid.interpolate on len_coords, on the normalized fields
Remapped(nsrc, ntrg, c, other_cls, order) ==
    IF len_coords(c) = 1 \/ len_coords(other_cls) = 1
    THEN _interpolate_unstructured(nsrc.data, nsrc.lat, nsrc.lon,
                                   ntrg.lat, ntrg.lon, order)
    ELSE _interpolate_structured(nsrc.data, Column(nsrc.lat, 1), nsrc.lon[1],
                                 ntrg.lat, ntrg.lon, order)

\* Grid.interpolate from other_grid.raw_lat_lon() on: numpy.argsort(lon, 1)
\* of a 1-D target raises
InterpolateTo(nsrc, trg, c, other_cls, order) ==
    IF trg.exc # "none" THEN trg
    ELSE IF Len(trg.shape) = 1 THEN Raise("AxisError")
    ELSE Remapped(nsrc, normalize_lat_lon(trg.lat, trg.lon, NoData), c, other_cls, order)

\* Grid.interpolate from self._calc_lat_lon() on
InterpolateFrom(src, c, dat, other_grid, order) ==
    IF src.exc # "none" THEN src
    ELSE IF Trailing(dat.shape, len_coords(c)) # src.shape
    THEN Raise("IndexError")   \* the message's '{0:d}'.format() has no argument
    ELSE IF Len(src.shape) = 1 THEN Raise("AxisError")  \* argsort(lon, 1) of 1-D
    ELSE IF ~IsGrid(other_grid) THEN Raise("TypeError")
    ELSE InterpolateTo(normalize_lat_lon(src.lat, src.lon, dat.values),
                       raw_lat_lon(other_grid.cls, other_grid._grid_dict),
                       c, other_grid.cls, order)

\* Grid.interpolate(data, other_grid, order) of the grid (c, gd)
interpolate(c, gd, dat, other_grid, order) ==
    InterpolateFrom(_calc_lat_lon(c, gd), c, dat, other_grid, order)

----------------------------------------------------------------------------
(* pymepps.GridBuilder: dispatch on gridtype, fields required per type *)

RequiredFields(gridtype) ==
    IF gridtype = "lonlat"
    THEN {"xfirst", "xinc", "xsize", "yfirst", "yinc", "ysize"}
    ELSE IF gridtype = "curvilinear" THEN {"xvals", "yvals", "xsize", "ysize"}
    ELSE {"xvals", "yvals", "gridsize"}

GridClass(gridtype) ==
    IF gridtype = "lonlat" THEN "LonLatGrid"
    ELSE IF gridtype = "curvilinear" THEN "CurvilinearGrid"
    ELSE "UnstructuredGrid"

\* GridBuilder(griddes).build_grid()
build_grid(griddes) ==
    IF "gridtype" \notin DOMAIN griddes
       \/ griddes.gridtype \notin {"lonlat", "curvilinear", "unstructured"}
    THEN Raise("UnknownGridType")
    ELSE IF ~(RequiredFields(griddes.gridtype) \subseteq DOMAIN griddes)
    THEN Raise("MissingField")
    ELSE [exc |-> "none",
          grid |-> Obj(GridClass(griddes.gridtype),
                       InitGridDict(GridClass(griddes.gridtype), griddes))]

----------------------------------------------------------------------------
(* Labelled data: the xarray.DataArray branch of Grid.interpolate *)

\* Grid.get_coord_names
get_coord_names(gd) == <<gd.yname, gd.xname>>

\* xarray.DataArray(values, coords=coords, dims=dims, attrs=attrs): as many
\* dimension names as the array has dimensions
DataArray(r, dims, coords, attrs) ==
    IF Len(dims) # Len(r.shape) THEN Raise("ValueError")
    ELSE [exc |-> "none", values |-> r.values, shape |-> r.shape,
          dims |-> dims, coords |-> coords, attrs |-> attrs]

\* data_dims: the data's dimensions that do not carry a coordinate name of the grid
data_dims(lab, gd) ==
    SelectSeq(lab.dims, LAMBDA dim : dim \notin {gd.yname, gd.xname})

\* data_coords: the coordinates of data_dims, updated with other_grid.get_coords()
data_coords(lab, kept, trg_names, trg_dims) ==
    [dim \in {kept[k] : k \in DOMAIN kept} \cup {trg_names[1], trg_names[2]} |->
        IF dim = trg_names[1] THEN trg_dims.y
        ELSE IF dim = trg_names[2] THEN trg_dims.x
        ELSE lab.coords[dim]]

\* the last block of Grid.interpolate for a DataArray with the labels lab, given
\* the remapped array
Relabelled(r, lab, gd, other_grid) ==
    IF r.exc # "none" THEN r
    ELSE DataArray(r, data_dims(lab, gd) \o get_coord_names(other_grid._grid_dict),
                   data_coords(lab, data_dims(lab, gd),
                               get_coord_names(other_grid._grid_dict),
                               _construct_dim(other_grid.cls, other_grid._grid_dict)),
                   lab.attrs)

\* Grid.interpolate(data, other_grid, order) for a DataArray
interpolate_labelled(c, gd, dat, lab, other_grid, order) ==
    Relabelled(interpolate(c, gd, dat, other_grid, order), lab, gd, other_grid)

----------------------------------------------------------------------------

(* The descriptor as attributes of saved data, and the grid built from them *)

\* the attributes of saved data: the data's own, and the descriptor's fields under
\* the names grid_<field>; a name is the pair of its first five characters (or
\* fewer) and the rest
to_attrs(gd) ==
    [a \in {<<"grid_", f>> : f \in DOMAIN gd} \cup {<<"units", "">>} |->
        IF a[1] = "grid_" THEN gd[a[2]] ELSE "K"]

\* a reading that misses the unit attributes
grid_attrs_no_units(attrs) ==
    [f \in {a[2] : a \in {b \in DOMAIN attrs : b[1] = "grid_"}} \ {"yunits", "xunits"} |->
        attrs[<<"grid_", f>>]]

\* {attr[5:]: attrs[attr] for attr in attrs if attr[:5] == 'grid_'}
grid_attrs(attrs) ==
    [f \in {a[2] : a \in {b \in DOMAIN attrs : b[1] = "grid_"}} |->
        attrs[<<"grid_", f>>]]

\* the grid built from the attributes, compared with the grid (c, gd)
Rebuilt(c, gd, built) ==
    IF built.exc # "none" THEN built
    ELSE [exc |-> "none", grid |-> built.grid,
          equal |-> Grid__eq__(c, gd, built.grid)]

\* GridBuilder(grid_attrs).build_grid() on the saved attributes of the grid (c, gd)
rebuild(c, gd) == Rebuilt(c, gd, build_grid(grid_attrs(to_attrs(gd))))

----------------------------------------------------------------------------

(* Box slicing: Grid._structured_box, Grid._unstructured_box, Grid._lonlatbox *)

\* a raw axis value against a plain number b: a raw value a of a radian axis
\* stands for a*pi/4 and b for b/2, and a*pi/4 >= b/2 iff 355*a >= 226*b for
\* the small integers of the model (333/106 < pi < 355/113)
RawGE(unit, a, b) ==
    IF Contains(unit, "rad") THEN 355 * a >= 226 * b ELSE a >= b

RawLE(unit, a, b) ==
    IF Contains(unit, "rad") THEN 355 * a <= 226 * b ELSE a <= b

\* (ll_box[0], ll_box[2]) and (ll_box[1], ll_box[3])
lon_box(ll_box) == <<ll_box[1], ll_box[3]>>

lat_box(ll_box) == <<ll_box[2], ll_box[4]>>

\* the mask without its upper bound
AxisBound_lower(unit, calc, box) ==
    [i \in DOMAIN calc |-> RawGE(unit, calc[i], Min(Range(box)))]

\* numpy.logical_and(calc >= np.min(box), calc <= np.max(box)) on a raw axis
AxisBound(unit, calc, box) ==
    [i \in DOMAIN calc |-> RawGE(unit, calc[i], Min(Range(box))) /\ RawLE(unit, calc[i], Max(Range(box)))]

\* the descriptor the structured slice assembles from deepcopy(self._grid_dict)
StructuredDict(gd, lat_vals, lon_vals) ==
    Without(Update(gd, [ysize |-> Len(lat_vals), xsize |-> Len(lon_vals),
                        yvals |-> lat_vals, xvals |-> lon_vals]),
            {"yfirst", "yinc", "xfirst", "xinc"})

\* new_grid_dict = self._grid_dict without the deepcopy: the edits reach the grid
SelfDictAlias(gd, new_grid_dict) == new_grid_dict

\* new_grid_dict = deepcopy(self._grid_dict): the edits go to the copy, and
\* self._grid_dict stays as it was
SelfDictAfterCopy(gd, new_grid_dict) == gd

\* data[..., lat_bound, :][..., lon_bound] of every leading slice
BoxValues(values, lat_bound, lon_bound) ==
    [l \in DOMAIN values |->
        [i \in DOMAIN MaskSel(values[l], lat_bound) |->
            MaskSel(MaskSel(values[l], lat_bound)[i], lon_bound)]]

\* what Grid._structured_box returns for the kept axis values
StructuredSlice(gd, dat, lat_bound, lon_bound, lat_vals, lon_vals) ==
    [exc |-> "none",
     values |-> BoxValues(dat.values, lat_bound, lon_bound),
     shape |-> <<Len(dat.values), Len(lat_vals), Len(lon_vals)>>,
     new_grid_dict |-> StructuredDict(gd, lat_vals, lon_vals),
     self_dict |-> SelfDictAfterCopy(gd, StructuredDict(gd, lat_vals, lon_vals))]

\* Grid._structured_box, given the two axis masks
StructuredMasked(gd, dat, dims, lat_bound, lon_bound) ==
    StructuredSlice(gd, dat, lat_bound, lon_bound,
                    MaskSel(dims.y, lat_bound), MaskSel(dims.x, lon_bound))

\* Grid._structured_box, given the constructed axes
StructuredOn(dims, gd, dat, ll_box) ==
    IF dims.exc # "none" THEN dims
    ELSE IF Len(ll_box) # 4 THEN Raise("ValueError")
    ELSE IF Trailing(dat.shape, 2) # <<Len(dims.y), Len(dims.x)>>
    THEN Raise("IndexError")   \* boolean index of the wrong length
    ELSE StructuredMasked(gd, dat, dims,
                          AxisBound(gd.yunits, dims.y, lat_box(ll_box)),
                          AxisBound(gd.xunits, dims.x, lon_box(ll_box)))

\* Grid._structured_box(data, ll_box); self_dict is self._grid_dict afterwards
_structured_box(c, gd, dat, ll_box) ==
    StructuredOn(_construct_dim(c, gd), gd, dat, ll_box)

UnstructuredDict(lat_vals, lon_vals) ==
    [gridtype |-> "unstructured", xlongname |-> "longitude", xname |-> "lon",
     xunits |-> "degrees", ylongname |-> "latitude", yname |-> "lat",
     yunits |-> "degrees", gridsize |-> Len(lat_vals),
     yvals |-> lat_vals, xvals |-> lon_vals]

\* a 2-D or 1-D array as the flat sequence a boolean mask of its shape selects from
Flat(a, shape) == IF Len(shape) = 2 THEN Flatten(a) ELSE a

\* a mask by the bounds in the order given: south and west below, north and east above
PointBound_ordered(flat_lat, flat_lon, ll_box) ==
    [k \in DOMAIN flat_lat |->
        /\ flat_lat[k] >= lat_box(ll_box)[2]
        /\ flat_lat[k] <= lat_box(ll_box)[1]
        /\ flat_lon[k] >= lon_box(ll_box)[1]
        /\ flat_lon[k] <= lon_box(ll_box)[2]]

\* a mask of the points strictly inside the box, the bounds excluded
PointBoundInside(flat_lat, flat_lon, ll_box) ==
    [k \in DOMAIN flat_lat |->
        /\ flat_lat[k] > Min(Range(lat_box(ll_box)))
        /\ flat_lat[k] < Max(Range(lat_box(ll_box)))
        /\ flat_lon[k] > Min(Range(lon_box(ll_box)))
        /\ flat_lon[k] < Max(Range(lon_box(ll_box)))]

\* lat_bound & lon_bound of Grid._unstructured_box on the flat points
PointBound(flat_lat, flat_lon, ll_box) ==
    [k \in DOMAIN flat_lat |->
        /\ flat_lat[k] >= Min(Range(lat_box(ll_box)))
        /\ flat_lat[k] <= Max(Range(lat_box(ll_box)))
        /\ flat_lon[k] >= Min(Range(lon_box(ll_box)))
        /\ flat_lon[k] <= Max(Range(lon_box(ll_box)))]

\* what Grid._unstructured_box returns for the kept points; numpy raises on
\* the empty selection
UnstructuredSlice(gd, dat, shape, bound, lat_vals, lon_vals) ==
    IF \A k \in DOMAIN bound : ~bound[k] THEN Raise("ValueError")
    ELSE [exc |-> "none",
          values |-> [l \in DOMAIN dat.values |->
                         MaskSel(Flat(dat.values[l], shape), bound)],
          shape |-> <<Len(dat.values), Len(lat_vals)>>,
          new_grid_dict |-> UnstructuredDict(lat_vals, lon_vals),
          self_dict |-> gd]

\* Grid._unstructured_box, given the mask of the points
UnstructuredMasked(gd, dat, shape, flat_lat, flat_lon, bound) ==
    UnstructuredSlice(gd, dat, shape, bound,
                      MaskSel(flat_lat, bound), MaskSel(flat_lon, bound))

\* Grid._unstructured_box, given the flat points
UnstructuredFlat(gd, dat, shape, flat_lat, flat_lon, ll_box) ==
    UnstructuredMasked(gd, dat, shape, flat_lat, flat_lon,
                       PointBound(flat_lat, flat_lon, ll_box))

\* Grid._unstructured_box, given self._calc_lat_lon()
UnstructuredOn(calc, c, gd, dat, ll_box) ==
    IF calc.exc # "none" THEN calc
    ELSE IF Trailing(dat.shape, len_coords(c)) # calc.shape THEN Raise("ValueError")
    ELSE IF Len(ll_box) # 4 THEN Raise("ValueError")
    ELSE UnstructuredFlat(gd, dat, calc.shape, Flat(calc.lat, calc.shape),
                          Flat(calc.lon, calc.shape), ll_box)

\* Grid._unstructured_box(data, ll_box)
_unstructured_box(c, gd, dat, ll_box) ==
    UnstructuredOn(_calc_lat_lon(c, gd), c, gd, dat, ll_box)

\* a pair that still carries the sliced data when the builder has failed
SlicedPair_partial(box, built) ==
    IF built.exc # "none"
    THEN [exc |-> built.exc, values |-> box.values, shape |-> box.shape,
          self_dict |-> box.self_dict]
    ELSE [exc |-> "none", returns |-> "pair",
          values |-> box.values, shape |-> box.shape,
          sliced_grid |-> built.grid,
          self_dict |-> box.self_dict]

\* the pair (sliced data, built grid) Grid._lonlatbox returns
SlicedPair(box, built) ==
    IF built.exc # "none"
    THEN [exc |-> built.exc, self_dict |-> box.self_dict]
    ELSE [exc |-> "none", returns |-> "pair",
          values |-> box.values, shape |-> box.shape,
          sliced_grid |-> built.grid,
          self_dict |-> box.self_dict]

\* Grid._lonlatbox from the slice on: GridBuilder(grid_dict).build_grid()
BuildSliced(box) ==
    IF box.exc # "none" THEN box
    ELSE SlicedPair(box, build_grid(box.new_grid_dict))

\* Grid._lonlatbox, given self._calc_lat_lon()
LonlatboxOn(src, c, gd, dat, ll_box, unstructured) ==
    IF src.exc # "none" THEN src
    ELSE IF Trailing(dat.shape, len_coords(c)) # src.shape THEN Raise("ValueError")
    ELSE IF unstructured THEN BuildSliced(_unstructured_box(c, gd, dat, ll_box))
    ELSE BuildSliced(_structured_box(c, gd, dat, ll_box))

\* Grid._lonlatbox(data, ll_box, unstructured)
_lonlatbox(c, gd, dat, ll_box, unstructured) ==
    LonlatboxOn(_calc_lat_lon(c, gd), c, gd, dat, ll_box, unstructured)

\* the public lonlatbox(data, ll_box): CurvilinearGrid slices unstructured;
\* LonLatGrid inherits Grid.lonlatbox, whose body is `pass`
lonlatbox(c, gd, dat, ll_box) ==
    IF c = "LonLatGrid" THEN [exc |-> "none", returns |-> "None", self_dict |-> gd]
    ELSE _lonlatbox(c, gd, dat, ll_box, TRUE)

----------------------------------------------------------------------------
(* Nearest point: distance_haversine, Grid.nearest_point, Grid.get_nearest_point *)

\* the coordinates on which the haversine term is rational: multiples of 60 degrees
OnLattice(x) == x % Deg(60) = 0

\* 2*cos(k*60 degrees), k in 0..5
Cos2Of(k) ==
    CASE k = 0 -> 2 [] k = 1 -> 1 [] k = 2 -> -1
      [] k = 3 -> -2 [] k = 4 -> -1 [] OTHER -> 1

\* 2*cos(x) for x a multiple of 60 degrees
Cos2(x) == Cos2Of((x \div Deg(60)) % 6)

\* a haversine term that weighs the longitude difference by cos(lat1)^2
distance_haversine_first(p1, p2) ==
    8 - 4 * Cos2(p2[1] - p1[1])
      + (2 + Cos2(p1[1] + p1[1])) * (2 - Cos2(p2[2] - p1[2]))

\* distance_haversine(p1, p2) up to the increasing map a |-> R*2*arcsin(sqrt(a)):
\* 16*a, with a = sin^2(dlat/2) + cos(lat1)*cos(lat2)*sin^2(dlon/2), written with
\* sin^2(t/2) = (1-cos t)/2 and cos(u)cos(v) = (cos(u-v)+cos(u+v))/2
distance_haversine(p1, p2) ==
    8 - 4 * Cos2(p2[1] - p1[1])
      + (Cos2(p2[1] - p1[1]) + Cos2(p1[1] + p2[1])) * (2 - Cos2(p2[2] - p1[2]))

\* an argmin that returns the last index of the least entry
argmin_last(v) ==
    CHOOSE k \in DOMAIN v :
        /\ \A m \in DOMAIN v : v[k] <= v[m]
        /\ \A m \in DOMAIN v : m > k => v[m] > v[k]

\* numpy.argmin: the first index of the least entry (0-based in the code)
argmin(v) == CHOOSE k \in DOMAIN v :
                 /\ \A m \in DOMAIN v : v[k] <= v[m]
                 /\ \A m \in DOMAIN v : m < k => v[m] > v[k]

\* an unravel_index that counts down the columns first
unravel_index_columns(k, shape) ==
    IF Len(shape) = 1 THEN <<k>>
    ELSE <<((k - 1) % shape[1]) + 1, ((k - 1) \div shape[1]) + 1>>

\* numpy.unravel_index(k, shape), 1-based
unravel_index(k, shape) ==
    IF Len(shape) = 1 THEN <<k>>
    ELSE <<((k - 1) \div shape[2]) + 1, ((k - 1) % shape[2]) + 1>>

\* the distance of every flat point of the grid to coord
calc_distance(flat_lat, flat_lon, coord) ==
    [k \in DOMAIN flat_lat |-> distance_haversine(coord, <<flat_lat[k], flat_lon[k]>>)]

\* Grid.nearest_point, given self._calc_lat_lon()
NearestOn(src, coord) ==
    IF src.exc # "none" THEN src
    ELSE IF Flat(src.lat, src.shape) = <<>> THEN Raise("ValueError")
    ELSE [exc |-> "none",
          nearest_ind |-> unravel_index(
              argmin(calc_distance(Flat(src.lat, src.shape),
                                   Flat(src.lon, src.shape), coord)),
              src.shape)]

\* Grid.nearest_point(coord)
nearest_point(c, gd, coord) == NearestOn(_calc_lat_lon(c, gd), coord)

\* data[..., nearest_ind]
PointValues(c, dat, found) ==
    IF found.exc # "none" THEN found
    ELSE [exc |-> "none",
          nearest_ind |-> found.nearest_ind,
          values |-> [l \in DOMAIN dat.values |->
              IF len_coords(c) = 1
              THEN dat.values[l][found.nearest_ind[1]]
              ELSE dat.values[l][found.nearest_ind[1]][found.nearest_ind[2]]],
          shape |-> <<Len(dat.values)>>]

\* Grid.get_nearest_point, given self._calc_lat_lon()
GetNearestOn(src, c, gd, dat, coord) ==
    IF src.exc # "none" THEN src
    ELSE IF Trailing(dat.shape, len_coords(c)) # src.shape THEN Raise("ValueError")
    ELSE PointValues(c, dat, nearest_point(c, gd, coord))

\* Grid.get_nearest_point(data, coord)
get_nearest_point(c, gd, dat, coord) ==
    GetNearestOn(_calc_lat_lon(c, gd), c, gd, dat, coord)

----------------------------------------------------------------------------
(* The grids, data and arguments the model draws its inputs from *)

\* axes as <<first, inc>>: ascending and descending latitudes, longitudes in
\* 0..360 and in -180..180, ascending and descending
DegYAxes == {<<Deg(-60), Deg(60)>>, <<Deg(60), Deg(-60)>>}

DegXAxes == {<<Deg(0), Deg(120)>>, <<Deg(-120), Deg(120)>>, <<Deg(120), Deg(-120)>>}

\* the regular grid with axes lat = 50, 51, 52 and lon = 10, 10.5, 11
ExampleAxes == <<Deg(50), Deg(1), Deg(10), 1>>

\* axes in radians, in multiples of pi/4: -pi/4, 0, pi/4 and 0, pi/2, pi
RadYAxes == {<<-1, 1>>}

RadXAxes == {<<0, 2>>}

RegularDict(ya, xa, ny, nx, unit) ==
    [gridtype |-> "lonlat", yfirst |-> ya[1], yinc |-> ya[2], ysize |-> ny,
     xfirst |-> xa[1], xinc |-> xa[2], xsize |-> nx,
     yunits |-> unit, xunits |-> unit]

RegularDicts ==
    {RegularDict(ya, xa, ny, nx, "degrees") :
        ya \in DegYAxes, xa \in DegXAxes, ny \in 1..MaxSize, nx \in 1..MaxSize}
    \cup {RegularDict(ya, xa, ny, nx, "radians") :
        ya \in RadYAxes, xa \in RadXAxes, ny \in 1..MaxSize, nx \in 1..MaxSize}
    \cup {RegularDict(<<Deg(-60), Deg(60)>>, <<Deg(0), Deg(120)>>, 2, 2, "kelvin"),
          RegularDict(<<ExampleAxes[1], ExampleAxes[2]>>,
                      <<ExampleAxes[3], ExampleAxes[4]>>, 3, 3, "degrees")}

\* curvilinear fields lat[i][j] = -60 + i*a + j*b, lon[i][j] = j*60 + i*d (degrees):
\* separable for b = d = 0, sheared otherwise
CurvilinearDict(a, b, d, ny, nx) ==
    [gridtype |-> "curvilinear", yfirst |-> 0, yinc |-> 1, ysize |-> ny,
     xfirst |-> 0, xinc |-> 1, xsize |-> nx,
     yvals |-> Flatten([i \in 1..ny |-> [j \in 1..nx |->
                  Deg(-60) + (i - 1) * a + (j - 1) * b]]),
     xvals |-> Flatten([i \in 1..ny |-> [j \in 1..nx |->
                  (j - 1) * Deg(60) + (i - 1) * d]])]

\* the last two: a descriptor that gives the values and the sizes only, and one
\* whose first/increment fields hold other values
CurvilinearDicts ==
    {CurvilinearDict(a, sh, sh, ny, nx) :
        a \in {Deg(60), Deg(-60)}, sh \in {0, Deg(60)},
        ny \in 1..MaxCurv, nx \in 1..MaxCurv}
    \cup {Without(CurvilinearDict(Deg(60), Deg(60), Deg(60), 2, 2),
                  {"yfirst", "yinc", "xfirst", "xinc"}),
          Update(CurvilinearDict(Deg(60), Deg(60), Deg(60), 2, 2),
                 [yfirst |-> Deg(5), yinc |-> -3, xfirst |-> Deg(-7), xinc |-> 2])}

\* an array with one leading dimension whose entries tell their own index
MkData(nlead, ny, nx) ==
    [values |-> [l \in 1..nlead |-> [i \in 1..ny |-> [j \in 1..nx |->
                    100 * l + 10 * i + j]]],
     shape |-> <<nlead, ny, nx>>]

\* an array over the points of a flat grid, with one leading dimension
MkFlatData(nlead, n) ==
    [values |-> [l \in 1..nlead |-> [k \in 1..n |-> 100 * l + k]],
     shape |-> <<nlead, n>>]

\* the bounds of a box along one coordinate with values vs, as <<upper, lower>>:
\* the full extent, all but the greatest value with the two bounds exchanged,
\* the least value only, beyond every value
Pairs(vs) ==
    {<<Max(vs), Min(vs)>>, <<Min(vs), Max(vs) - 1>>, <<Min(vs), Min(vs)>>,
     <<Max(vs) + 2, Max(vs) + 1>>}

ExampleBoxes == {<<Deg(10), Deg(52), Deg(11), Deg(50)>>,
                 <<Deg(10), Deg(51), Deg(10) + 1, Deg(50)>>}

\* the flat coordinate values of the grid, empty where they cannot be computed
PointsOf(ll) ==
    IF ll.exc # "none" THEN [lat |-> {}, lon |-> {}]
    ELSE [lat |-> Range(Flat(ll.lat, ll.shape)), lon |-> Range(Flat(ll.lon, ll.shape))]

BoxesAround(pts) ==
    IF pts.lat = {} THEN ExampleBoxes
    ELSE {<<ew[2], ns[1], ew[1], ns[2]>> : ns \in Pairs(pts.lat), ew \in Pairs(pts.lon)}
         \cup ExampleBoxes \cup {<<0, 0, 0>>}

BoxesFor(c, gd) == BoxesAround(PointsOf(_calc_lat_lon(c, gd)))

\* the other grids a call may be given, besides the grid itself
FixedOthers ==
    {Obj("LonLatGrid", InitGridDict("LonLatGrid",
            RegularDict(<<Deg(60), Deg(-60)>>, <<Deg(0), Deg(120)>>, 2, 2, "degrees"))),
     Obj("CurvilinearGrid", InitGridDict("CurvilinearGrid",
            [CurvilinearDict(Deg(60), 0, 0, 2, 2)
                EXCEPT !.xvals = <<0, Deg(120), 0, Deg(120)>>])),
     Obj("LonLatGrid", InitGridDict("LonLatGrid",
            RegularDict(<<Deg(-60), Deg(60)>>, <<Deg(0), Deg(120)>>, 2, 2, "kelvin"))),
     Obj("LonLatGrid", Without(InitGridDict("LonLatGrid",
            RegularDict(<<Deg(-60), Deg(60)>>, <<Deg(0), Deg(120)>>, 2, 2, "degrees")),
            {"xfirst"})),
     Obj("UnstructuredGrid", UnstructuredDict(<<0, Deg(60)>>, <<0, Deg(120)>>)),
     NoneArg, NotAGrid}

\* scattered points (lat, lon) = (((k + 1) mod 3 - 1) * 60, (k - 2) * 60), k = 1..n,
\* all different, and the same points with the first repeated at the end; n is
\* above every leading size, so that no data of a flat grid has two trailing
\* dimensions of the length n
ScatteredLat(n, rep) ==
    [k \in 1..n |-> IF rep /\ k = n THEN Deg(60) ELSE (((k + 1) % 3) - 1) * Deg(60)]

ScatteredLon(n, rep) ==
    [k \in 1..n |-> IF rep /\ k = n THEN Deg(-60) ELSE (k - 2) * Deg(60)]

UnstructuredDicts ==
    {UnstructuredDict(ScatteredLat(MaxLead + 1, rep), ScatteredLon(MaxLead + 1, rep)) :
        rep \in BOOLEAN}

\* the grids of each class, and the data a call on the grid is given: of the
\* grid's shape under 1..MaxLead leading entries, and of another shape
DictsOf(c) ==
    IF c = "LonLatGrid" THEN RegularDicts
    ELSE IF c = "CurvilinearGrid" THEN CurvilinearDicts
    ELSE UnstructuredDicts

DataFor(c, gd) ==
    IF c = "UnstructuredGrid"
    THEN {MkFlatData(nlead, gd.gridsize) : nlead \in 1..MaxLead}
         \cup {MkFlatData(1, gd.gridsize + 1)}
    ELSE {MkData(nlead, gd.ysize, gd.xsize) : nlead \in 1..MaxLead}
         \cup {MkData(1, gd.ysize, gd.xsize + 1)}

\* the orders of an interpolation: nearest neighbour, bilinear, and the two next
\* the labels of a DataArray over a 2-D grid under one leading dimension: the
\* grid dimensions named as the grid names its coordinates, or otherwise
LabelSets ==
    {[dims |-> <<"time", n[1], n[2]>>,
      coords |-> [dim \in {"time", n[1], n[2]} |-> <<"coordinate", dim>>],
      attrs |-> [units |-> "K"]] : n \in {<<"lat", "lon">>, <<"y", "x">>}}

Orders == {0, 1, 2, 3}

\* targets (lat, lon) of a nearest-point lookup
NearCoords == {<<0, 0>>, <<Deg(60), Deg(120)>>, <<Deg(-60), Deg(-120)>>,
               <<0, Deg(60)>>, <<Deg(60), Deg(-60)>>}

\* every point of the grid lies on the lattice distance_haversine is exact on
OnLatticeAll(pts) == \A v \in pts.lat \cup pts.lon : OnLattice(v)

LatticeGrid(c, gd) == OnLatticeAll(PointsOf(_calc_lat_lon(c, gd)))

Readers == 1..NumReaders

----------------------------------------------------------------------------
(* Specification Spec: one grid, one caller; every call of the public and   *)
(* private interface is one action, and the caller takes a call's result    *)
(* before the next call.                                                    *)

InitReaders ==
    /\ pc = [r \in Readers |-> [at |-> "idle", n |-> 1]]
    /\ seen = [r \in Readers |-> None]
    /\ writes = 0
    /\ read_full = FALSE
    /\ late_write = FALSE

InitNorm ==
    /\ nlat = None
    /\ nlon = None
    /\ ndata = None
    /\ nout = <<>>

InitGrid ==
    /\ \E c \in {"LonLatGrid", "CurvilinearGrid", "UnstructuredGrid"} :
        \E gd \in DictsOf(c) :
            /\ cls = c
            /\ _grid_dict = InitGridDict(c, gd)
            /\ grid0 = InitGridDict(c, gd)
            /\ \E d \in DataFor(c, gd) :
                /\ data = d
                /\ data0 = d
    /\ _lat_lon = None
    /\ first_ll = None
    /\ result = None

Init == InitGrid /\ InitReaders /\ InitNorm /\ twin = None

Idle == result = None

\* the frame of a call: what it leaves of the grid and of the caller's data
Frame(r) ==
    /\ _grid_dict' = IF "self_dict" \in DOMAIN r THEN r.self_dict ELSE _grid_dict
    /\ UNCHANGED <<cls, data, grid0, data0, pc, seen, writes, read_full, late_write,
                   nlat, nlon, ndata, nout, twin>>

\* the body of the lat_lon property: the cache, filled on the first access
CacheOr(cache, c, gd) ==
    IF cache = None THEN _get_lat_lon(c, gd) ELSE [exc |-> "none", ds |-> cache]

\* grid.lat_lon by a single caller
LatLonAccess ==
    /\ Idle
    /\ result' = [op |-> "lat_lon", arg |-> <<>>,
                  ret |-> CacheOr(_lat_lon, cls, _grid_dict)]
    /\ _lat_lon' = IF result'.ret.exc = "none" THEN result'.ret.ds ELSE _lat_lon
    /\ first_ll' = IF first_ll = None /\ result'.ret.exc = "none"
                   THEN result'.ret.ds ELSE first_ll
    /\ UNCHANGED <<cls, _grid_dict, data, grid0, data0, pc, seen, writes, read_full,
                   late_write, nlat, nlon, ndata, nout, twin>>

Call(op, arg, r) ==
    /\ Idle
    /\ result' = [op |-> op, arg |-> arg, ret |-> r]
    /\ Frame(r)
    /\ UNCHANGED <<_lat_lon, first_ll>>

Interpolate(other_grid, order) ==
    Call("interpolate", <<other_grid, order>>,
         interpolate(cls, _grid_dict, data, other_grid, order))

Lonlatbox(ll_box) ==
    Call("lonlatbox", ll_box, lonlatbox(cls, _grid_dict, data, ll_box))

PrivateLonlatbox(ll_box, unstructured) ==
    Call("_lonlatbox", <<ll_box, unstructured>>,
         _lonlatbox(cls, _grid_dict, data, ll_box, unstructured))

StructuredBox(ll_box) ==
    Call("_structured_box", ll_box, _structured_box(cls, _grid_dict, data, ll_box))

UnstructuredBox(ll_box) ==
    Call("_unstructured_box", ll_box, _unstructured_box(cls, _grid_dict, data, ll_box))

NearestPoint(coord) ==
    /\ LatticeGrid(cls, _grid_dict)
    /\ Call("nearest_point", coord, nearest_point(cls, _grid_dict, coord))

GetNearestPoint(coord) ==
    /\ LatticeGrid(cls, _grid_dict)
    /\ Call("get_nearest_point", coord, get_nearest_point(cls, _grid_dict, data, coord))

Eq(other) ==
    Call("__eq__", other, Grid__eq__(cls, _grid_dict, other))

Copy ==
    Call("copy", <<>>, [exc |-> "none", grid |-> copy(cls, _grid_dict, _lat_lon)])

\* interpolate of a DataArray that holds data under the labels lab
InterpolateLabelled(lab, other_grid, order) ==
    /\ Len(lab.dims) = Len(data.shape)
    /\ Call("interpolate_labelled", <<other_grid, order, lab>>,
            interpolate_labelled(cls, _grid_dict, data, lab, other_grid, order))

\* the grid saved with data, read back and built anew
Rebuild ==
    Call("rebuild", <<>>, rebuild(cls, _grid_dict))

\* the caller takes the returned value (or handles the exception)
TakeResult ==
    /\ result # None
    /\ result' = None
    /\ UNCHANGED <<cls, _grid_dict, _lat_lon, data, grid0, data0, first_ll,
                   pc, seen, writes, read_full, late_write, nlat, nlon, ndata, nout, twin>>

Self == Obj(cls, _grid_dict)

Next ==
    \/ LatLonAccess
    \/ \E other \in FixedOthers \cup {Self}, order \in Orders : Interpolate(other, order)
    \/ \E ll_box \in BoxesFor(cls, _grid_dict) : Lonlatbox(ll_box)
    \/ \E ll_box \in BoxesFor(cls, _grid_dict), u \in BOOLEAN : PrivateLonlatbox(ll_box, u)
    \/ \E ll_box \in BoxesFor(cls, _grid_dict) : StructuredBox(ll_box)
    \/ \E ll_box \in BoxesFor(cls, _grid_dict) : UnstructuredBox(ll_box)
    \/ \E coord \in NearCoords : NearestPoint(coord)
    \/ \E coord \in NearCoords : GetNearestPoint(coord)
    \/ \E other \in FixedOthers \cup {Self} : Eq(other)
    \/ Copy
    \/ Rebuild
    \/ \E lab \in LabelSets : InterpolateLabelled(lab, Self, 0)
    \/ TakeResult

Spec == Init /\ [][Next]_vars

----------------------------------------------------------------------------
(* Specification SpecReaders: several threads read grid.lat_lon of one grid. *)
(* A thread's access is the steps of the property's code: the test of the   *)
(* cache, the call of _get_lat_lon, the assignment and the return; the      *)
(* interpreter may switch threads between any two of them.                  *)

ReaderDicts ==
    {RegularDict(<<Deg(-60), Deg(60)>>, xa, 2, nx, unit) :
        xa \in DegXAxes, nx \in 1..2, unit \in {"degrees", "kelvin"}}

InitReaderGrid ==
    /\ cls = "LonLatGrid"
    /\ \E gd \in ReaderDicts :
        /\ _grid_dict = InitGridDict("LonLatGrid", gd)
        /\ grid0 = InitGridDict("LonLatGrid", gd)
        /\ data = MkData(1, gd.ysize, gd.xsize)
        /\ data0 = MkData(1, gd.ysize, gd.xsize)
    /\ _lat_lon = None
    /\ first_ll = None
    /\ result = None

InitR == InitReaderGrid /\ InitReaders /\ InitNorm /\ twin = None

ReaderFrame ==
    UNCHANGED <<cls, _grid_dict, data, result, grid0, data0, first_ll,
                nlat, nlon, ndata, nout, twin>>

\* if self._lat_lon is None
Check(r) ==
    /\ pc[r].at = "idle"
    /\ pc' = [pc EXCEPT ![r].at = IF _lat_lon = None THEN "get" ELSE "return"]
    /\ read_full' = (read_full \/ _lat_lon # None)
    /\ UNCHANGED <<_lat_lon, seen, writes, late_write>>
    /\ ReaderFrame

\* the right-hand side self._get_lat_lon()
Get(r) ==
    /\ pc[r].at = "get"
    /\ seen' = [seen EXCEPT ![r] = _get_lat_lon(cls, _grid_dict)]
    /\ pc' = [pc EXCEPT ![r].at = IF seen'[r].exc = "none" THEN "assign" ELSE "raised"]
    /\ UNCHANGED <<_lat_lon, writes, read_full, late_write>>
    /\ ReaderFrame

\* self._lat_lon = ...
Assign(r) ==
    /\ pc[r].at = "assign"
    /\ _lat_lon' = seen[r].ds
    /\ writes' = writes + 1
    /\ late_write' = (late_write \/ read_full)
    /\ pc' = [pc EXCEPT ![r].at = "return"]
    /\ UNCHANGED <<seen, read_full>>
    /\ ReaderFrame

\* return self._lat_lon
Return(r) ==
    /\ pc[r].at = "return"
    /\ seen' = [seen EXCEPT ![r] = [exc |-> "none", ds |-> _lat_lon]]
    /\ read_full' = TRUE
    /\ pc' = [pc EXCEPT ![r].at = "done"]
    /\ UNCHANGED <<_lat_lon, writes, late_write>>
    /\ ReaderFrame

\* the thread accesses lat_lon once more
Again(r) ==
    /\ pc[r].at \in {"done", "raised"}
    /\ pc[r].n < MaxAccess
    /\ pc' = [pc EXCEPT ![r] = [at |-> "idle", n |-> pc[r].n + 1]]
    /\ UNCHANGED <<_lat_lon, seen, writes, read_full, late_write>>
    /\ ReaderFrame

NextR ==
    \E r \in Readers : Check(r) \/ Get(r) \/ Assign(r) \/ Return(r) \/ Again(r)

SpecReaders == InitR /\ [][NextR]_vars

----------------------------------------------------------------------------
(* Specification SpecNorm: normalize_lat_lon applied to a 2-D field, and then *)
(* to its own output.                                                         *)

\* the 2-D fields of the shape (2, 2) over the values vals
Fields(vals) == [1..2 -> [1..2 -> vals]]

LatVals == {(k - 1) * Deg(60) : k \in 0..NormVals}

\* longitudes of 0..360: 0, 120, 240, ...
LonVals == {k * Deg(120) : k \in 0..NormVals}

InitN ==
    /\ nlat \in Fields(LatVals)
    /\ nlon \in Fields(LonVals)
    /\ ndata \in {NoData, MkData(1, 2, 2).values}
    /\ nout = <<>>
    /\ cls = "LonLatGrid"
    /\ _grid_dict = InitGridDict("LonLatGrid",
                        RegularDict(<<Deg(-60), Deg(60)>>, <<Deg(0), Deg(120)>>, 2, 2, "degrees"))
    /\ grid0 = _grid_dict
    /\ data = MkData(1, 2, 2)
    /\ data0 = data
    /\ _lat_lon = None
    /\ first_ll = None
    /\ result = None
    /\ twin = None
    /\ InitReaders

\* the arguments of the next application: the caller's field, then the last output
NormArg ==
    IF nout = <<>> THEN [lat |-> nlat, lon |-> nlon, data |-> ndata]
    ELSE nout[Len(nout)]

\* normalize_lat_lon(lat, lon, data); `lon[lon > 180] -= 360` works in place,
\* on the caller's array at the first application
Normalize ==
    /\ Len(nout) < MaxApply
    /\ nout' = Append(nout, normalize_lat_lon(NormArg.lat, NormArg.lon, NormArg.data))
    /\ nlon' = IF nout = <<>> THEN WrapLon(nlon) ELSE nlon
    /\ UNCHANGED <<cls, _grid_dict, _lat_lon, data, result, grid0, data0, first_ll,
                   pc, seen, writes, read_full, late_write, nlat, ndata, twin>>

NextN == Normalize

SpecNorm == InitN /\ [][NextN]_vars

----------------------------------------------------------------------------
(* Specification SpecCopy: a grid and the grid its copy() returned. The caller *)
(* reads lat_lon of either, changes the descriptor or the cached field of     *)
(* either in place, and slices or interpolates with either; result keeps what *)
(* both grids held before the call.                                           *)

Holders == {"self", "twin"}

Other(g) == IF g = "self" THEN "twin" ELSE "self"

\* the holder names a grid that exists
Held(g) == g = "self" \/ twin # None

\* the class, descriptor and cache of the grid a holder names
GridOf(g) ==
    IF g = "self" THEN [cls |-> cls, _grid_dict |-> _grid_dict, _lat_lon |-> _lat_lon]
    ELSE [cls |-> twin.cls, _grid_dict |-> twin._grid_dict, _lat_lon |-> twin._lat_lon]

Views == [g \in Holders |-> IF Held(g) THEN GridOf(g) ELSE None]

\* the attributes whose object both grids hold
Shares == IF twin = None THEN {} ELSE twin.shares

\* attribute attr of holder g becomes v: by a change in place of the object it
\* holds, which every grid holding that object sees, or by binding the attribute
\* to a new object, which ends the sharing
Store(g, attr, v, in_place) ==
    /\ _grid_dict' = IF attr = "_grid_dict" /\ (g = "self" \/ (in_place /\ attr \in Shares))
                     THEN v ELSE _grid_dict
    /\ _lat_lon' = IF attr = "_lat_lon" /\ (g = "self" \/ (in_place /\ attr \in Shares))
                   THEN v ELSE _lat_lon
    /\ twin' = IF twin = None THEN twin
               ELSE [twin EXCEPT
                        ![attr] = IF g = "twin" \/ (in_place /\ attr \in Shares)
                                  THEN v ELSE @,
                        !.shares = IF in_place THEN @ ELSE @ \ {attr}]

\* the grids of the shape (2, 2)
CopyDicts(c) == {gd \in DictsOf(c) : gd.ysize = 2 /\ gd.xsize = 2}

InitC ==
    /\ \E c \in {"LonLatGrid", "CurvilinearGrid"} :
        \E gd \in CopyDicts(c) :
            /\ cls = c
            /\ _grid_dict = InitGridDict(c, gd)
            /\ grid0 = InitGridDict(c, gd)
    /\ data = MkData(1, 2, 2)
    /\ data0 = data
    /\ _lat_lon = None
    /\ first_ll = None
    /\ result = None
    /\ twin = None
    /\ InitReaders
    /\ InitNorm

CopyFrame ==
    UNCHANGED <<cls, data, grid0, data0, first_ll, pc, seen, writes, read_full,
                late_write, nlat, nlon, ndata, nout>>

\* what a call on holder g leaves in result
Done(op, g, arg, r) ==
    /\ result' = [op |-> op, on |-> g, arg |-> arg, ret |-> r, before |-> Views]
    /\ CopyFrame

\* twin = self.copy()
CopyGrid ==
    /\ twin = None
    /\ twin' = copy(cls, _grid_dict, _lat_lon)
    /\ UNCHANGED <<_grid_dict, _lat_lon>>
    /\ Done("copy", "self", <<>>, None)

\* g._grid_dict['yfirst'] = v
SetItem(g, v) ==
    /\ Held(g)
    /\ IF "yfirst" \in DOMAIN GridOf(g)._grid_dict
       THEN GridOf(g)._grid_dict.yfirst # v ELSE TRUE
    /\ Store(g, "_grid_dict", Update(GridOf(g)._grid_dict, [yfirst |-> v]), TRUE)
    /\ Done("setitem", g, v, None)

\* the lat_lon property on an empty cache, given self._get_lat_lon()
FillWith(g, r) ==
    /\ IF r.exc = "none" THEN Store(g, "_lat_lon", r.ds, FALSE)
       ELSE UNCHANGED <<_grid_dict, _lat_lon, twin>>
    /\ Done("lat_lon", g, <<>>, r)

\* g.lat_lon, first access
FillCache(g) ==
    /\ Held(g)
    /\ GridOf(g)._lat_lon = None
    /\ FillWith(g, _get_lat_lon(GridOf(g).cls, GridOf(g)._grid_dict))

\* the cached field with every latitude set to 0
Zeroed(ds) ==
    [ds EXCEPT !.latitude = [i \in DOMAIN @ |-> [j \in DOMAIN @[i] |-> 0]]]

\* g.lat_lon['latitude'].values[:] = 0, on a filled cache
ZeroCache(g) ==
    /\ Held(g)
    /\ GridOf(g)._lat_lon # None
    /\ Zeroed(GridOf(g)._lat_lon) # GridOf(g)._lat_lon
    /\ Store(g, "_lat_lon", Zeroed(GridOf(g)._lat_lon), TRUE)
    /\ Done("zero", g, <<>>, None)

\* lonlatbox or interpolate of holder g
UseOn(g, op, arg) ==
    IF op = "lonlatbox"
    THEN lonlatbox(GridOf(g).cls, GridOf(g)._grid_dict, data, arg)
    ELSE interpolate(GridOf(g).cls, GridOf(g)._grid_dict, data, arg[1], arg[2])

\* g.lonlatbox(data, ll_box) and g.interpolate(data, other_grid, order); neither
\* assigns to the grid
Use(g, op, arg) ==
    /\ Held(g)
    /\ UNCHANGED <<_grid_dict, _lat_lon, twin>>
    /\ Done(op, g, arg, UseOn(g, op, arg))

\* the boxes around the points of the grid as constructed whose bounds are in order
CopyBoxes ==
    {b \in BoxesFor(cls, grid0) : Len(b) = 4 /\ b[1] <= b[3] /\ b[4] <= b[2]}

NextC ==
    \/ CopyGrid
    \/ \E g \in Holders, v \in {Deg(60)} : SetItem(g, v)
    \/ \E g \in Holders : FillCache(g)
    \/ \E g \in Holders : ZeroCache(g)
    \/ \E g \in Holders, ll_box \in CopyBoxes : Use(g, "lonlatbox", ll_box)
    \/ \E g \in Holders, order \in {0, 1} :
           Use(g, "interpolate", <<Obj(cls, grid0), order>>)

SpecCopy == InitC /\ [][NextC]_vars

----------------------------------------------------------------------------
(* Properties *)

\* the call whose result the caller holds
Called(op) == result # None /\ result.op = op

\* the data's trailing two dimensions are the grid's
ValidData ==
    IF cls = "UnstructuredGrid" THEN Trailing(data.shape, 1) = <<grid0.gridsize>>
    ELSE Trailing(data.shape, 2) = <<grid0.ysize, grid0.xsize>>

\* the points of the grid as flat row-major sequences, in degrees
FlatLL(ll) ==
    IF ll.exc # "none" THEN [exc |-> ll.exc, lat |-> <<>>, lon |-> <<>>]
    ELSE [exc |-> "none", lat |-> Flat(ll.lat, ll.shape), lon |-> Flat(ll.lon, ll.shape)]

GridPoints == FlatLL(_calc_lat_lon(cls, grid0))

\* the box of a slicing call
BoxArg == IF result.op = "_lonlatbox" THEN result.arg[1] ELSE result.arg

\* the indices of the flat points inside the box (west, north, east, south)
KeptIdx(fl, b) ==
    {k \in DOMAIN fl.lat :
        /\ b[4] <= fl.lat[k] /\ fl.lat[k] <= b[2]
        /\ b[1] <= fl.lon[k] /\ fl.lon[k] <= b[3]}

\* the k-th least member of a set of indices
Nth(keep, k) == CHOOSE i \in keep : Cardinality({m \in keep : m < i}) = k - 1

\* the entries of s at the indices keep, in their order
Pick(s, keep) == [k \in 1..Cardinality(keep) |-> s[Nth(keep, k)]]

\* a well-formed box whose bounds are in order
OrderedBox(b) == Len(b) = 4 /\ b[4] <= b[2] /\ b[1] <= b[3]

\* the box covering the full extent of the points
FullBox(fl) ==
    <<Min(Range(fl.lon)), Max(Range(fl.lat)), Max(Range(fl.lon)), Min(Range(fl.lat))>>

IsTrue(r) == r.exc = "none" /\ r.value

ShapeOf(ll) == IF ll.exc = "none" THEN ll.shape ELSE <<>>

DegreeGrid == grid0.yunits = "degrees" /\ grid0.xunits = "degrees"

\* the strategy of the grid's variant: structured for a regular grid,
\* unstructured for a curvilinear one
OwnStrategy(unstructured) == unstructured = (cls # "LonLatGrid")

\* C1: interpolate of data from a structured grid onto the same grid with order 0
\* returns data, element for element at the same indices.
C1_SelfInterpolation ==
    (/\ Called("interpolate")
     /\ cls = "LonLatGrid" /\ DegreeGrid /\ ValidData
     /\ result.arg[2] = 0
     /\ result.arg[1] = Obj(cls, grid0))
    => (result.ret.exc = "none" /\ result.ret.values = data.values)

\* C2: the public lonlatbox of a LonLatGrid and of a CurvilinearGrid, with valid
\* data and a box that keeps a point, returns the pair (sliced data, new grid), the
\* data's shape being the leading dimensions followed by the new grid's shape.
C2_LonlatboxReturnsPair ==
    (/\ Called("lonlatbox") /\ ValidData /\ OrderedBox(result.arg)
     /\ KeptIdx(GridPoints, result.arg) # {})
    => (/\ result.ret.exc = "none"
        /\ result.ret.returns = "pair"
        /\ result.ret.shape = <<Len(data.values)>>
               \o ShapeOf(_calc_lat_lon(result.ret.sliced_grid.cls,
                                        result.ret.sliced_grid._grid_dict)))

\* the error kind EmptySliceResult in the code: the ValueError 'Only an empty
\* array remains, ...', the one ValueError a slice of valid data by a box of four
\* entries can raise
EmptySliceResult == "ValueError"

\* C3: a box that excludes every grid point makes the structured slice (of a
\* regular grid) and the unstructured slice (of a curvilinear grid) fail with
\* EmptySliceResult.
C3_EmptyBoxFails ==
    (/\ result # None /\ result.op \in {"_structured_box", "_unstructured_box"}
     /\ OwnStrategy(result.op = "_unstructured_box")
     /\ ValidData /\ OrderedBox(result.arg)
     /\ GridPoints.exc = "none"
     /\ KeptIdx(GridPoints, result.arg) = {})
    => result.ret.exc = EmptySliceResult

\* the grid's axes as the structured slice reads them
Axes == _construct_dim(cls, grid0)

\* the indices of a raw axis between lo and hi, bounds included
Between(unit, axis, lo, hi) ==
    {i \in DOMAIN axis : RawGE(unit, axis[i], lo) /\ RawLE(unit, axis[i], hi)}

\* the structured slice r is the grid and the data restricted to rows and cols
SliceIs(r, dims, rows, cols) ==
    /\ r.new_grid_dict.yvals = Pick(dims.y, rows)
    /\ r.new_grid_dict.xvals = Pick(dims.x, cols)
    /\ r.new_grid_dict.ysize = Cardinality(rows)
    /\ r.new_grid_dict.xsize = Cardinality(cols)
    /\ r.values = [l \in DOMAIN data.values |->
                      [i \in 1..Cardinality(rows) |->
                          [j \in 1..Cardinality(cols) |->
                              data.values[l][Nth(rows, i)][Nth(cols, j)]]]]

\* the regular grid with lat = 50, 51, 52 and lon = 10, 10.5, 11
IsExampleGrid ==
    /\ cls = "LonLatGrid"
    /\ grid0.yfirst = ExampleAxes[1] /\ grid0.yinc = ExampleAxes[2]
    /\ grid0.xfirst = ExampleAxes[3] /\ grid0.xinc = ExampleAxes[4]
    /\ grid0.ysize = 3 /\ grid0.xsize = 3

\* the number of points the example boxes keep of the example grid
ExampleKept(r, b) ==
    /\ b = <<Deg(10), Deg(52), Deg(11), Deg(50)>>
          => r.new_grid_dict.ysize * r.new_grid_dict.xsize = 9
    /\ b = <<Deg(10), Deg(51), Deg(10) + 1, Deg(50)>>
          => r.new_grid_dict.ysize * r.new_grid_dict.xsize = 4

KeptLL(fl, b) ==
    [exc |-> "none", lat |-> Pick(fl.lat, KeptIdx(fl, b)),
     lon |-> Pick(fl.lon, KeptIdx(fl, b))]

\* C5: for every grid and box that keeps a point, the grid built from the
\* descriptor that box slicing assembles (a regular grid sliced structured, a
\* curvilinear one unstructured) has the lat/lon of the kept subset of the
\* original grid, same points in the same order.
C5_RoundTrip ==
    (/\ Called("_lonlatbox") /\ OwnStrategy(result.arg[2])
     /\ ValidData /\ OrderedBox(BoxArg)
     /\ KeptIdx(GridPoints, BoxArg) # {})
    => (/\ result.ret.exc = "none"
        /\ FlatLL(_calc_lat_lon(result.ret.sliced_grid.cls,
                                result.ret.sliced_grid._grid_dict))
               = KeptLL(GridPoints, BoxArg))

\* C6: slicing a regular or a curvilinear grid with the box of its full extent
\* returns a grid that is == to the original.
C6_FullExtentEqual ==
    (/\ result # None /\ result.op \in {"lonlatbox", "_lonlatbox"}
     /\ ValidData /\ GridPoints.exc = "none"
     /\ BoxArg = FullBox(GridPoints))
    => (/\ result.ret.exc = "none"
        /\ result.ret.returns = "pair"
        /\ IsTrue(Grid__eq__(result.ret.sliced_grid.cls,
                             result.ret.sliced_grid._grid_dict, Obj(cls, grid0))))

\* C7: whatever calls were made, the grid's descriptor and the lat/lon it computes
\* are those of the start, and the caller's data is unchanged.
C7_Frame ==
    /\ _grid_dict = grid0
    /\ _calc_lat_lon(cls, _grid_dict) = _calc_lat_lon(cls, grid0)
    /\ data = data0

\* a structured slice has assembled a descriptor differing from the grid's, and
\* the cache is filled
C7_Witness ==
    /\ Called("_structured_box")
    /\ result.ret.exc = "none"
    /\ result.ret.new_grid_dict # grid0
    /\ _lat_lon # None

\* C8: with concurrent readers of lat_lon the cache is assigned at most once and
\* never after a reader has read a non-empty cache.
C8_AssignedOnce == writes <= 1 /\ ~late_write

\* x of an axis in the given unit, in degrees (a radian value k is k*pi/4)
InDegrees(unit, x) == IF unit = "radians" THEN 90 * x ELSE x

\* the field has the descriptor's shape and the values first + index * inc, each
\* through conv
FieldIs(ds, gd, conv(_, _)) ==
    /\ ds.shape = <<gd.ysize, gd.xsize>>
    /\ Len(ds.latitude) = gd.ysize
    /\ \A i \in 1..gd.ysize :
        /\ Len(ds.latitude[i]) = gd.xsize
        /\ \A j \in 1..gd.xsize :
            /\ ds.latitude[i][j] = conv(gd.yunits, gd.yfirst + (i - 1) * gd.yinc)
            /\ ds.longitude[i][j] = conv(gd.xunits, gd.xfirst + (j - 1) * gd.xinc)

Unconverted(unit, x) == x

C10_Idempotent == Len(nout) >= 2 => nout[2] = nout[1]

\* latitude does not decrease down the rows of any column
AscendingDown(a) ==
    \A i \in 1..(Len(a) - 1) : \A j \in DOMAIN a[i] : a[i][j] <= a[i + 1][j]

\* longitude does not decrease along the columns of any row
AscendingAlong(a) ==
    \A i \in DOMAIN a : \A j \in 1..(Len(a[i]) - 1) : a[i][j] <= a[i][j + 1]

\* every output index carries the coordinates and the data of one input point
DataFollows(out, lat, lon, dat) ==
    \A i \in DOMAIN out.lat : \A j \in DOMAIN out.lat[i] :
        \E a \in DOMAIN lat : \E b \in DOMAIN lat[a] :
            /\ lat[a][b] = out.lat[i][j]
            /\ lon[a][b] = out.lon[i][j]
            /\ \A l \in DOMAIN dat : dat[l][a][b] = out.data[l][i][j]

\* C11: for every 2-D field given to normalize_lat_lon, the returned latitude
\* ascends down every column, the returned longitude ascends along every row,
\* and the returned data at each index is the input value of the input point
\* whose (lat, lon) the output carries there.
C11_SortedBothWays ==
    Len(nout) >= 1 =>
        /\ AscendingDown(nout[1].lat)
        /\ AscendingAlong(nout[1].lon)
        /\ DataFollows(nout[1], nlat, nlon, ndata)

\* the position of a returned index in the row-major scan of the grid's points
FlatIndex(ind, shape) ==
    IF Len(shape) = 1 THEN ind[1] ELSE (ind[1] - 1) * shape[2] + ind[2]

\* the haversine distance of every grid point to coord, in row-major order
DistancesTo(ll, coord) ==
    calc_distance(Flat(ll.lat, ll.shape), Flat(ll.lon, ll.shape), coord)

\* no point is nearer than the k-th, and none before it is as near
FirstLeast(dist, k) ==
    /\ k \in DOMAIN dist
    /\ \A m \in DOMAIN dist : dist[k] <= dist[m] /\ (m < k => dist[m] > dist[k])

\* the points at the least distance
Nearests(dist) == {k \in DOMAIN dist : \A m \in DOMAIN dist : dist[k] <= dist[m]}

\* C12: nearest_point returns the index of a grid point whose haversine distance
\* to the target is minimal over all grid points; of several points at the same
\* minimal distance it returns the first in row-major scan order.
C12_NearestFirstMinimal ==
    (Called("nearest_point") /\ result.ret.exc = "none") =>
        FirstLeast(DistancesTo(_calc_lat_lon(cls, grid0), result.arg),
                   FlatIndex(result.ret.nearest_ind,
                             ShapeOf(_calc_lat_lon(cls, grid0))))

\* a lookup with two points at the least distance, neither the first of the scan
C12_Witness ==
    /\ Called("nearest_point")
    /\ result.ret.exc = "none"
    /\ Cardinality(Nearests(DistancesTo(_calc_lat_lon(cls, grid0), result.arg))) >= 2
    /\ FlatIndex(result.ret.nearest_ind, ShapeOf(_calc_lat_lon(cls, grid0))) > 1

\* the row-major positions of the grid points with the coordinates coord
AtPoints(ll, coord) ==
    {k \in DOMAIN Flat(ll.lat, ll.shape) :
        /\ Flat(ll.lat, ll.shape)[k] = coord[1]
        /\ Flat(ll.lon, ll.shape)[k] = coord[2]}

\* data[..., ind]: one value for every entry of the leading dimension
SliceAt(dat, ind) ==
    [l \in DOMAIN dat.values |->
        IF Len(ind) = 1 THEN dat.values[l][ind[1]]
        ELSE dat.values[l][ind[1]][ind[2]]]

\* a lookup that returned, at a target that is a point of the grid
ExactLookup ==
    /\ result # None
    /\ result.op \in {"nearest_point", "get_nearest_point"}
    /\ result.ret.exc = "none"
    /\ AtPoints(_calc_lat_lon(cls, grid0), result.arg) # {}

\* the returned index is at position k, and the returned data is data's slice there
FoundAt(r, shape, k) ==
    /\ FlatIndex(r.ret.nearest_ind, shape) = k
    /\ r.op = "get_nearest_point" =>
           /\ r.ret.values = SliceAt(data, unravel_index(k, shape))
           /\ r.ret.shape = SubSeq(data.shape, 1, Len(data.shape) - Len(shape))

\* C13 (as amended): for a target equal to the coordinates of grid point k,
\* nearest_point returns the index of the first grid point, in row-major order,
\* that has these coordinates (k itself unless an earlier point coincides with
\* it), and get_nearest_point returns data's slice at that point with all leading
\* dimensions kept, for grids with one and with two coordinate dimensions.
C13_FirstExactPoint ==
    ExactLookup =>
        FoundAt(result, ShapeOf(_calc_lat_lon(cls, grid0)),
                Min(AtPoints(_calc_lat_lon(cls, grid0), result.arg)))

\* C13 (as stated): for a target equal to the coordinates of grid point k,
\* nearest_point returns k's index and get_nearest_point returns data's slice
\* at k, whichever point k of the grid has these coordinates.
C13_EveryExactPoint ==
    ExactLookup =>
        \A k \in AtPoints(_calc_lat_lon(cls, grid0), result.arg) :
            FoundAt(result, ShapeOf(_calc_lat_lon(cls, grid0)), k)

\* the data of a scattered grid's point other than the first, under two leading
\* entries
C13_Witness ==
    /\ ExactLookup
    /\ result.op = "get_nearest_point"
    /\ cls = "UnstructuredGrid"
    /\ Len(data.values) = 2
    /\ result.ret.nearest_ind[1] > 1
    /\ result.ret.values = <<100 + result.ret.nearest_ind[1],
                             200 + result.ret.nearest_ind[1]>>

\* the exception the spec's ShapeMismatch stands for: the ValueError that
\* get_nearest_point, _lonlatbox and _unstructured_box raise
ShapeMismatch == "ValueError"

\* the grid's latitude / longitude field can be computed
Computable(c, gd) == _calc_lat_lon(c, gd).exc = "none"

\* C14: interpolate with data whose trailing dimensions differ from the shape of
\* the grid's latitude / longitude field fails with ShapeMismatch, the kind that
\* get_nearest_point and _lonlatbox raise, before normalization or remapping.
C14_InterpolateShapeMismatch ==
    (/\ Called("interpolate")
     /\ Computable(cls, grid0)
     /\ ~ValidData)
    => result.ret.exc = ShapeMismatch

\* the exception the spec's UnsupportedInterpolationOrder stands for
UnsupportedInterpolationOrder == "ValueError"

\* the argument other_grid of the call is a grid whose field can be computed
TargetComputable(other) ==
    IsGrid(other) /\ Computable(other.cls, other._grid_dict)

\* C15: interpolate with an order other than 0 or 1 fails with
\* UnsupportedInterpolationOrder on the structured and on the unstructured path;
\* such an order is never treated as nearest neighbour nor handed to the backend.
C15_OrderRejected ==
    (/\ Called("interpolate")
     /\ result.arg[2] \notin {0, 1}
     /\ Computable(cls, grid0) /\ ValidData
     /\ TargetComputable(result.arg[1]))
    => result.ret.exc = UnsupportedInterpolationOrder

\* the exception the spec's InvalidBox stands for
InvalidBox == "ValueError"

\* a call of one of the box operations has returned
BoxCalled ==
    /\ result # None
    /\ result.op \in {"lonlatbox", "_lonlatbox", "_structured_box", "_unstructured_box"}

\* C16: a box that does not have exactly 4 entries makes the box extraction fail
\* with InvalidBox, for every grid variant and extraction strategy, and no new
\* grid is built.
C16_InvalidBoxFails ==
    (/\ BoxCalled
     /\ Len(BoxArg) # 4
     /\ Computable(cls, grid0) /\ ValidData)
    => result.ret.exc = InvalidBox

\* two computed fields have the same shape and the same values point by point
SameField(a, b) ==
    /\ a.shape = b.shape
    /\ Flat(a.lat, a.shape) = Flat(b.lat, b.shape)
    /\ Flat(a.lon, a.shape) = Flat(b.lon, b.shape)

\* C17: two grids whose latitude / longitude fields can be computed are == exactly
\* when the fields have the same shape and the same values, whatever their
\* descriptors or variants.
C17_EqualIffSameField ==
    (/\ Called("__eq__")
     /\ Computable(cls, grid0)
     /\ TargetComputable(result.arg))
    => /\ result.ret.exc = "none"
       /\ result.ret.value =
              SameField(_calc_lat_lon(cls, grid0),
                        _calc_lat_lon(result.arg.cls, result.arg._grid_dict))

\* a regular grid found equal to a curvilinear grid with the same field
C17_Witness ==
    /\ Called("__eq__")
    /\ cls = "LonLatGrid"
    /\ IsGrid(result.arg)
    /\ result.arg.cls = "CurvilinearGrid"
    /\ result.ret.exc = "none"
    /\ result.ret.value

\* C18: grid == other never raises; it is false when other is None, is not a
\* grid, or is a grid whose latitude / longitude cannot be computed.
C18_EqNeverRaises ==
    (Called("__eq__") /\ Computable(cls, grid0)) =>
        /\ result.ret.exc = "none"
        /\ ~TargetComputable(result.arg) => ~result.ret.value

\* the last call was made on one of two grids, the other being the one it left alone
Beside == twin # None /\ result # None /\ result.op # "copy"

\* C19: copy() returns an equal grid that shares no mutable state with the
\* original: filling or changing the cache or the descriptor of either grid
\* never changes the other's, and lonlatbox and interpolate on the copy return
\* what they return on the original.
C19_CopyIndependent ==
    /\ (result # None /\ result.op = "copy") =>
           /\ twin._grid_dict = _grid_dict /\ twin._lat_lon = _lat_lon
           /\ twin.cls = cls
           /\ Computable(cls, _grid_dict) =>
                  IsTrue(Grid__eq__(twin.cls, twin._grid_dict, Obj(cls, _grid_dict)))
    /\ Beside => Views[Other(result.on)] = result.before[Other(result.on)]
    /\ (Beside /\ result.op \in {"lonlatbox", "interpolate"}
               /\ twin._grid_dict = _grid_dict) =>
           result.ret = UseOn(Other(result.on), result.op, result.arg)

\* the original's descriptor changed in place after the copy, the copy's descriptor
\* and cache being what copy() returned
C19_Witness ==
    /\ Beside
    /\ result.op = "setitem" /\ result.on = "self"
    /\ _grid_dict # grid0
    /\ twin._grid_dict = grid0
    /\ twin._lat_lon # None
    /\ _lat_lon # twin._lat_lon

\* convert_to_deg has a rule for the unit
Recognised(unit) == \E known \in {"deg", "rad"} : Contains(unit, known)

\* C20: constructing a grid whose xunits or yunits is not a recognised unit
\* fails at construction, so a grid on which lat_lon is read has recognised
\* units and the unit error never surfaces first at a later call.
C20_UnitsCheckedAtConstruction ==
    Called("lat_lon") =>
        /\ Recognised(grid0.yunits) /\ Recognised(grid0.xunits)
        /\ result.ret.exc # "ValueError"

LabelsKept(r, lab, nlead, trg_names) ==
    /\ r.exc = "none"
    /\ r.dims = SubSeq(lab.dims, 1, nlead) \o trg_names
    /\ \A k \in 1..nlead : r.coords[lab.dims[k]] = lab.coords[lab.dims[k]]
    /\ r.attrs = lab.attrs

\* C22: for labelled input data on which interpolate succeeds, the result has as
\* dimensions the data's leading non-grid dimensions, with their coordinates and
\* the data's attributes unchanged, followed by the target grid's coordinate
\* names, whatever names the data's trailing grid dimensions carry.
C22_LabelsFollowPosition ==
    (/\ Called("interpolate_labelled")
     /\ interpolate(cls, grid0, data, result.arg[1], result.arg[2]).exc = "none")
    => LabelsKept(result.ret, result.arg[3], Len(data.shape) - len_coords(cls),
                  get_coord_names(result.arg[1]._grid_dict))

\* one of the two grids of an interpolation has one coordinate dimension
EitherFlat(other) == len_coords(cls) = 1 \/ len_coords(other.cls) = 1

\* C23: when the source or the target grid has coordinate count 1, interpolate
\* with valid data completes and returns, for every leading slice, one value per
\* target point, shaped as the leading dimensions plus the target grid's shape.
C23_UnstructuredPathCompletes ==
    (/\ Called("interpolate")
     /\ result.arg[2] \in {0, 1}
     /\ Computable(cls, grid0) /\ ValidData
     /\ TargetComputable(result.arg[1])
     /\ EitherFlat(result.arg[1]))
    => /\ result.ret.exc = "none"
       /\ result.ret.shape =
              SubSeq(data.shape, 1, Len(data.shape) - len_coords(cls))
              \o ShapeOf(_calc_lat_lon(result.arg[1].cls, result.arg[1]._grid_dict))

\* the grid's points and the target of the lookup
LookupPoints ==
    {result.arg} \cup {<<GridPoints.lat[k], GridPoints.lon[k]>> : k \in DOMAIN GridPoints.lat}

\* C24: distance_haversine(p, p) is 0 for every point p, and
\* distance_haversine(p1, p2) = distance_haversine(p2, p1) for every two points.
C24_HaversineZeroSymmetric ==
    (Called("nearest_point") /\ GridPoints.exc = "none") =>
        \A p \in LookupPoints :
            /\ distance_haversine(p, p) = 0
            /\ \A q \in LookupPoints :
                   distance_haversine(p, q) = distance_haversine(q, p)

\* a lookup among points that differ in latitude and in longitude and lie apart
C24_Witness ==
    /\ Called("nearest_point") /\ GridPoints.exc = "none"
    /\ \E p, q \in LookupPoints :
           /\ p[1] # q[1] /\ p[2] # q[2]
           /\ Cos2(p[1] + p[1]) # Cos2(q[1] + q[1])
           /\ distance_haversine(p, q) > 0

\* the descriptor a slice assembled: that of the grid built from it, where the
\* call built one
SlicedDescriptor(r) ==
    IF "new_grid_dict" \in DOMAIN r THEN r.new_grid_dict ELSE r.sliced_grid._grid_dict

\* the descriptor d is unstructured and holds the points keep of fl, in their order
HoldsKept(d, fl, keep) ==
    /\ d.gridtype = "unstructured"
    /\ d.yvals = Pick(fl.lat, keep)
    /\ d.xvals = Pick(fl.lon, keep)
    /\ d.gridsize = Cardinality(keep)
    /\ Len(d.yvals) = d.gridsize /\ Len(d.xvals) = d.gridsize

\* the last axis of values holds the source values at the points keep, in their order
ValuesKept(values, keep) ==
    values = [l \in DOMAIN data.values |-> Pick(Flatten(data.values[l]), keep)]

GivesPoints(gd) ==
    /\ {"xvals", "yvals", "xsize", "ysize"} \subseteq DOMAIN gd
    /\ Len(gd.yvals) = gd.ysize * gd.xsize
    /\ Len(gd.xvals) = gd.ysize * gd.xsize

\* C26: for a curvilinear descriptor that gives xvals, yvals, xsize and ysize with
\* len(xvals) = len(yvals) = ysize*xsize, the lat/lon is defined with
\* lat[i][j] = yvals[i*xsize + j], lon[i][j] = xvals[i*xsize + j] and the shape
\* (ysize, xsize), whether or not the first/increment fields are present and
\* whatever their values.
C26_CurvilinearLatLonAsGiven ==
    (Called("lat_lon") /\ cls = "CurvilinearGrid" /\ GivesPoints(grid0)) =>
        /\ result.ret.exc = "none"
        /\ result.ret.ds.shape = <<grid0.ysize, grid0.xsize>>
        /\ \A i \in 1..grid0.ysize : \A j \in 1..grid0.xsize :
              /\ result.ret.ds.latitude[i][j] = grid0.yvals[(i - 1) * grid0.xsize + j]
              /\ result.ret.ds.longitude[i][j] = grid0.xvals[(i - 1) * grid0.xsize + j]

\* a call of interpolate, get_nearest_point or the box slicing has failed
FailedCall(r) ==
    /\ r # None
    /\ r.op \in {"interpolate", "interpolate_labelled", "get_nearest_point",
                 "lonlatbox", "_lonlatbox"}
    /\ r.ret.exc # "none"

\* the outcome carries neither data nor a grid nor a descriptor
NoPartial(ret) ==
    DOMAIN ret \cap {"values", "shape", "sliced_grid", "new_grid_dict", "returns",
                     "dims", "coords", "attrs"} = {}

Coincides(src, trg) ==
    \A i \in DOMAIN trg.lat : \A j \in DOMAIN trg.lat[i] :
        \E k \in DOMAIN src.lat : \E m \in DOMAIN src.lat[k] :
            src.lat[k][m] = trg.lat[i][j] /\ src.lon[k][m] = trg.lon[i][j]

\* values holds at every index of trg the data of the point of src with the
\* same latitude and longitude
ValuesOfSamePoints(values, src, trg) ==
    \A l \in DOMAIN data.values :
        \A i \in DOMAIN trg.lat : \A j \in DOMAIN trg.lat[i] :
            \A k \in DOMAIN src.lat : \A m \in DOMAIN src.lat[k] :
                (src.lat[k][m] = trg.lat[i][j] /\ src.lon[k][m] = trg.lon[i][j])
                    => values[l][i][j] = data.values[l][k][m]

\* a regular source with data of its shape, and a structured target on its points
OntoOwnPoints(src, other_grid) ==
    /\ src.exc = "none"
    /\ IsGrid(other_grid) /\ other_grid.cls # "UnstructuredGrid"
    /\ Computable(other_grid.cls, other_grid._grid_dict)
    /\ Coincides(src, _calc_lat_lon(other_grid.cls, other_grid._grid_dict))

\* C28: with order 0, a regular source and a structured target whose every point
\* is a source point, the result at the target index (i, j) is the source data at
\* the source point with the latitude and longitude of the target's point (i, j),
\* whether the axes of source and target ascend or descend.
C28_Order0TakesSamePoint ==
    (/\ Called("interpolate") /\ cls = "LonLatGrid" /\ ValidData
     /\ result.arg[2] = 0
     /\ OntoOwnPoints(_calc_lat_lon(cls, grid0), result.arg[1]))
    => (/\ result.ret.exc = "none"
        /\ ValuesOfSamePoints(result.ret.values, _calc_lat_lon(cls, grid0),
                              _calc_lat_lon(result.arg[1].cls,
                                            result.arg[1]._grid_dict)))

\* the rows of the field ll whose latitude in degrees lies between lo and hi
RowsWithin(ll, lo, hi) ==
    {i \in DOMAIN ll.lat : lo <= ll.lat[i][1] /\ ll.lat[i][1] <= hi}

\* the columns of the field ll whose longitude in degrees lies between lo and hi
ColsWithin(ll, lo, hi) ==
    {j \in DOMAIN ll.lon[1] : lo <= ll.lon[1][j] /\ ll.lon[1][j] <= hi}

\* the slice r is data restricted to rows and cols
KeepsRowsCols(r, rows, cols) ==
    /\ r.new_grid_dict.ysize = Cardinality(rows)
    /\ r.new_grid_dict.xsize = Cardinality(cols)
    /\ r.values = [l \in DOMAIN data.values |->
                      [i \in 1..Cardinality(rows) |->
                          [j \in 1..Cardinality(cols) |->
                              data.values[l][Nth(rows, i)][Nth(cols, j)]]]]

RadianGrid == grid0.yunits = "radians" /\ grid0.xunits = "radians"

\* C29: the box is in degrees under both strategies: for a regular grid whose axis
\* units are radians the structured slice keeps exactly the rows and columns whose
\* lat/lon in degrees lies within the box, the points the unstructured strategy
\* keeps for the same grid and box.
C29_RadianAxesBoxInDegrees ==
    (/\ Called("_structured_box") /\ cls = "LonLatGrid" /\ RadianGrid
     /\ ValidData /\ OrderedBox(result.arg)
     /\ KeptIdx(GridPoints, result.arg) # {})
    => (/\ result.ret.exc = "none"
        /\ KeepsRowsCols(result.ret,
                         RowsWithin(_calc_lat_lon(cls, grid0),
                                    result.arg[4], result.arg[2]),
                         ColsWithin(_calc_lat_lon(cls, grid0),
                                    result.arg[1], result.arg[3])))

\* the box with west and east exchanged, and with north and south exchanged
SwapWE(b) == <<b[3], b[2], b[1], b[4]>>

SwapNS(b) == <<b[1], b[4], b[3], b[2]>>

\* the outcome of the slicing operation op of the grid for the box b
SlicedBy(op, b, unstructured) ==
    CASE op = "_structured_box" -> _structured_box(cls, grid0, data, b)
      [] op = "_unstructured_box" -> _unstructured_box(cls, grid0, data, b)
      [] op = "lonlatbox" -> lonlatbox(cls, grid0, data, b)
      [] OTHER -> _lonlatbox(cls, grid0, data, b, unstructured)

\* a box slicing call with a box of four entries
BoxSliced ==
    /\ result # None
    /\ result.op \in {"_structured_box", "_unstructured_box", "lonlatbox", "_lonlatbox"}
    /\ Len(BoxArg) = 4

\* the strategy asked of _lonlatbox, FALSE for the other operations
AskedUnstructured == result.op = "_lonlatbox" /\ result.arg[2]

\* C30: the result of box slicing (kept points and sliced data) is the same when
\* west and east are exchanged and when north and south are exchanged; a box with
\* west > east is not treated as a range across the antimeridian.
C30_BoxBoundsExchangeable ==
    BoxSliced =>
        \A b \in {SwapWE(BoxArg), SwapNS(BoxArg), SwapWE(SwapNS(BoxArg))} :
            SlicedBy(result.op, b, AskedUnstructured) = result.ret

\* an unstructured slice by a box with west > east and south > north that keeps
\* some points of the grid and drops others
C30_Witness ==
    /\ Called("_unstructured_box") /\ Len(result.arg) = 4
    /\ result.arg[1] > result.arg[3] /\ result.arg[4] > result.arg[2]
    /\ result.ret.exc = "none"
    /\ result.ret.new_grid_dict.gridsize < Len(GridPoints.lat)

====
